---- MODULE Spec2Model ----
(***************************************************************************)
(* go-tracer: a facade over an OpenTelemetry tracer.                       *)
(*                                                                         *)
(*   - the package-level tracer handle, Init and the shutdown closure it   *)
(*     returns, makeGrpcExporter                                           *)
(*   - the span wrapper (Tag, SetStatus, AddEvent, RecordError, End,       *)
(*     handleError) and StartSpan                                          *)
(*   - options.go: Option, Options, buildOptions                           *)
(*                                                                         *)
(* The wrapped span (trace.Span) is modelled by the contract the Span      *)
(* interface documents: status precedence OK > Error > Unset, a            *)
(* description kept only for Error, RecordError adding an "exception"      *)
(* event, and a no-op span that records nothing and has a zero identity.   *)
(* Spans are started without a parent in the context, so a span of the     *)
(* exporting tracer is valid, sampled and recording.                       *)
(***************************************************************************)
EXTENDS Integers, Sequences, FiniteSets, TLC

\* ------------------------------------------------------------------ bounds
MaxGoroutines == 2   \* goroutines that call Init
MaxErrs       == 2   \* error pointers handed to one End call
MaxEvents     == 1   \* events added by AddEvent/RecordError before End
MaxOpts       == 1   \* options handed to one Init call

DefaultPort == 4317

VARIABLES
    tracer,     \* the package variable `tracer`: kind and the Init call that stored it
    writes,     \* number of assignments made to `tracer`
    inits,      \* per goroutine: position in Init, outcome of its last call, closure held
    shut,       \* per goroutine: outcome of the last call of the closure it holds
    span,       \* the span the caller holds: the one StartSpan returned last
    lastOp,     \* the most recent span operation and the calls it made on the wrapped span
    panicked    \* a nil tracer was dereferenced

vars == <<tracer, writes, inits, shut, span, lastOp, panicked>>

\* ------------------------------------------------------------------ errors
\* An error value: its Error() text, the context error its chain holds
\* (errors.Is), and the code grpc's status.Code reports for it.
NilErr == [text |-> "<nil>", wraps |-> "none", grpc |-> "OK"]

ErrDeadline ==
    [text |-> "context deadline exceeded", wraps |-> "DeadlineExceeded", grpc |-> "Unknown"]

ErrWrappedCanceled ==
    [text |-> "query: context canceled", wraps |-> "Canceled", grpc |-> "Unknown"]

ErrGrpcCanceled ==
    [text |-> "rpc error: code = Canceled desc = aborted", wraps |-> "none", grpc |-> "Canceled"]

Errors == {ErrDeadline, ErrWrappedCanceled, ErrGrpcCanceled}

\* errors.Is(err, context.Canceled)
ErrorsIsCanceled(err) == err.wraps = "Canceled"

\* status.Code(err)
StatusCode(err) == err.grpc

\* A *error argument of End: a nil pointer, or a pointer to an error variable.
NilPtr == [isnil |-> TRUE, val |-> NilErr]

Ref(e) == [isnil |-> FALSE, val |-> e]

ErrPtrs == {NilPtr} \cup {Ref(e) : e \in Errors \cup {NilErr}}

SeqsUpTo(S, n) == UNION {[1..k -> S] : k \in 0..n}

\* ------------------------------------------------------------ wrapped span
Codes == {"Unset", "Error", "Ok"}

\* codes.Code is ordered Unset < Error < Ok.
CodeRank(c) == CASE c = "Unset" -> 0 [] c = "Error" -> 1 [] c = "Ok" -> 2

NoAttr == [ctor |-> "none", type |-> "none"]

Keys == {"k"}

\* A span of the exporting tracer (recording) or of the no-op tracer; `via`
\* notes the value of `tracer` that StartSpan read when it made the span.
NewSdkSpan ==
    [rec |-> TRUE, valid |-> TRUE, sampled |-> TRUE, code |-> "Unset", desc |-> "",
     events |-> <<>>, attrs |-> [k \in Keys |-> NoAttr], ends |-> 0, via |-> "none"]

NewNoopSpan ==
    [rec |-> FALSE, valid |-> FALSE, sampled |-> FALSE, code |-> "Unset", desc |-> "",
     events |-> <<>>, attrs |-> [k \in Keys |-> NoAttr], ends |-> 0, via |-> "none"]

\* trace.Span.SetStatus without the precedence check (a lower code overwrites).
SdkSetStatusNoPrecedence(u, code, description) ==
    IF ~u.rec THEN u
    ELSE [u EXCEPT !.code = code,
                   !.desc = IF code = "Error" THEN description ELSE ""]

\* trace.Span.SetStatus: ignored when a higher code is already set; the
\* description is kept only with Error.
SdkSetStatus(u, code, description) ==
    IF ~u.rec \/ CodeRank(u.code) > CodeRank(code) THEN u
    ELSE [u EXCEPT !.code = code,
                   !.desc = IF code = "Error" THEN description ELSE ""]

\* trace.Span.AddEvent
SdkAddEvent(u, name) ==
    IF ~u.rec THEN u ELSE [u EXCEPT !.events = Append(@, name)]

\* trace.Span.RecordError: an "exception" event, status untouched; nothing
\* for a nil error or a span that is not recording.
SdkRecordError(u, err) ==
    IF ~u.rec \/ err = NilErr THEN u ELSE [u EXCEPT !.events = Append(@, "exception")]

\* trace.Span.SetAttributes with one attribute
SdkSetAttribute(u, key, attr) ==
    IF ~u.rec THEN u ELSE [u EXCEPT !.attrs[key] = attr]

\* trace.Span.End
SdkEnd(u) == [u EXCEPT !.ends = @ + 1]

\* ------------------------------------------------------------- span facade
\* What one facade call yields: the wrapped span afterwards and the calls
\* made on it, in order.
Out(u, calls) == [u |-> u, calls |-> calls]

\* The dynamic values handed to Tag: the dynamic type and whether that type
\* has a String() method (fmt.Stringer).
Builtin(t) == [type |-> t, stringer |-> FALSE]

TagValues ==
    {Builtin(t) : t \in {"int", "int32", "int64", "string", "float64", "float32",
                         "bool", "[]string", "[]int", "[]int64", "error"}}
    \cup {[type |-> "time.Duration", stringer |-> TRUE]}

\* The attribute constructor each case of the type switch uses, and the
\* attribute.Type of the value it builds.
TagAttr(value) ==
    CASE value.type = "int"      -> [ctor |-> "Int", type |-> "INT64"]
      [] value.type = "string"   -> [ctor |-> "String", type |-> "STRING"]
      [] value.type = "float64"  -> [ctor |-> "Float64", type |-> "FLOAT64"]
      [] value.type = "int64"    -> [ctor |-> "Int64", type |-> "INT64"]
      [] value.type = "bool"     -> [ctor |-> "Bool", type |-> "BOOL"]
      [] value.type = "[]string" -> [ctor |-> "StringSlice", type |-> "STRINGSLICE"]
      [] value.type = "[]int"    -> [ctor |-> "IntSlice", type |-> "INT64SLICE"]
      [] value.stringer          -> [ctor |-> "Stringer", type |-> "STRING"]
      [] OTHER                   -> [ctor |-> "none", type |-> "none"]

\* span.Tag with a default case that formats any other value as a string.
TagWithDefault(u, key, value) ==
    LET a == TagAttr(value)
        b == IF a.ctor = "none" THEN [ctor |-> "String", type |-> "STRING"] ELSE a
    IN  Out(SdkSetAttribute(u, key, b), <<<<"SetAttributes", key, b>>>>)

\* span.Tag
Tag(u, key, value) ==
    LET a == TagAttr(value)
    IN  IF a.ctor = "none" THEN Out(u, <<>>)
        ELSE Out(SdkSetAttribute(u, key, a), <<<<"SetAttributes", key, a>>>>)

\* span.SetStatus
SetStatus(u, code, description) ==
    Out(SdkSetStatus(u, code, description), <<<<"SetStatus", code, description>>>>)

\* span.AddEvent
AddEvent(u, name) == Out(SdkAddEvent(u, name), <<<<"AddEvent", name>>>>)

\* span.RecordError
RecordError(u, err) == Out(SdkRecordError(u, err), <<<<"RecordError", err.text>>>>)

\* span.handleError that tests only errors.Is(err, context.Canceled).
handleErrorCtxOnly(u, err) ==
    IF ErrorsIsCanceled(err)
    THEN Out(SdkAddEvent(u, "canceled"), <<<<"AddEvent", "canceled">>>>)
    ELSE Out(SdkSetStatus(u, "Error", err.text), <<<<"SetStatus", "Error", err.text>>>>)

\* span.handleError that also takes an expired deadline for a cancellation.
handleErrorDeadlineToo(u, err) ==
    IF ErrorsIsCanceled(err) \/ err.wraps = "DeadlineExceeded" \/ StatusCode(err) = "Canceled"
    THEN Out(SdkAddEvent(u, "canceled"), <<<<"AddEvent", "canceled">>>>)
    ELSE Out(SdkSetStatus(u, "Error", err.text), <<<<"SetStatus", "Error", err.text>>>>)

\* span.handleError
handleError(u, err) ==
    IF ErrorsIsCanceled(err) \/ StatusCode(err) = "Canceled"
    THEN Out(SdkAddEvent(u, "canceled"), <<<<"AddEvent", "canceled">>>>)
    ELSE Out(SdkSetStatus(u, "Error", err.text), <<<<"SetStatus", "Error", err.text>>>>)

\* The loop of span.End from position i without its break: every error of
\* the list is handled.
RECURSIVE EndLoopNoBreak(_, _, _)
EndLoopNoBreak(u, errs, i) ==
    IF i > Len(errs) THEN Out(u, <<>>)
    ELSE IF ~errs[i].isnil /\ errs[i].val # NilErr
         THEN LET h == handleError(u, errs[i].val)
                  r == EndLoopNoBreak(h.u, errs, i + 1)
              IN  Out(r.u, h.calls \o r.calls)
         ELSE EndLoopNoBreak(u, errs, i + 1)

\* The loop of span.End from position i: the first pointer that is non-nil
\* and references a non-nil error is handled, and the loop breaks.
RECURSIVE EndLoop(_, _, _)
EndLoop(u, errs, i) ==
    IF i > Len(errs) THEN Out(u, <<>>)
    ELSE IF ~errs[i].isnil /\ errs[i].val # NilErr
         THEN handleError(u, errs[i].val)
         ELSE EndLoop(u, errs, i + 1)

\* span.End that returns after handling an error, leaving the span open.
EndSkipsFinish(u, errs) ==
    LET l == EndLoop(u, errs, 1)
    IN  IF l.calls # <<>> THEN l ELSE Out(SdkEnd(l.u), l.calls \o <<<<"End">>>>)

\* span.End
End(u, errs) ==
    LET l == EndLoop(u, errs, 1)
    IN  Out(SdkEnd(l.u), l.calls \o <<<<"End">>>>)

\* -------------------------------------------------------------- options.go
\* An Option is a function on Options; it is named by the field it sets.
Noop == [field |-> "noop", val |-> "true"]

WithCollectorHost(host) == [field |-> "host", val |-> host]

Options0 == [noop |-> FALSE, host |-> "", port |-> 0]

defaultOptions ==
    <<WithCollectorHost("localhost"), [field |-> "port", val |-> DefaultPort]>>

ApplyOption(opt, o) ==
    CASE opt.field = "noop" -> [o EXCEPT !.noop = TRUE]
      [] opt.field = "host" -> [o EXCEPT !.host = opt.val]
      [] opt.field = "port" -> [o EXCEPT !.port = opt.val]

RECURSIVE FoldOptions(_, _, _)
FoldOptions(opts, i, o) ==
    IF i > Len(opts) THEN o ELSE FoldOptions(opts, i + 1, ApplyOption(opts[i], o))

\* buildOptions: the defaults first, then the caller's options, in order.
buildOptions(opts) == FoldOptions(defaultOptions \o opts, 1, Options0)

\* Options.IsNoop
IsNoop(o) == o.noop

OptionValues == {Noop, WithCollectorHost("collector")}

\* ------------------------------------------- the tracer handle and Init
NilTracer == [kind |-> "nil", by |-> 0]

Goroutines == 1..MaxGoroutines

Main == 1

IdleInit ==
    [pc |-> "idle", result |-> "none", noop |-> FALSE, dialed |-> FALSE, closure |-> "none"]

NoShutdown ==
    [called |-> FALSE, env |-> <<>>, steps |-> <<>>, errs |-> <<>>, isnil |-> TRUE]

\* errors.Join: nil when no error is given, else one error holding them all.
Join(errs) == [errs |-> errs, isnil |-> errs = <<>>]

\* makeGrpcExporter: grpc.NewClient, then otlptracegrpc.New; `dial` and
\* `export` are the outcomes of the two library calls.
makeGrpcExporter(options, dial, export) ==
    IF dial = "fail" THEN [err |-> "trace collector connection error", closer |-> FALSE]
    ELSE IF export = "fail" THEN [err |-> "failed to create exporter", closer |-> FALSE]
    ELSE [err |-> "nil", closer |-> TRUE]

\* Init, lines 25-27: the handle is already set.
InitAlready(p) ==
    /\ inits' = [inits EXCEPT ![p] =
           [pc |-> "idle", result |-> "already", noop |-> FALSE, dialed |-> FALSE,
            closure |-> inits[p].closure]]
    /\ UNCHANGED <<tracer, writes>>

\* Init, lines 29-68: resolve the options, install the no-op tracer, or
\* build the exporter and install the exporting tracer.
InitBody(p, opts, dial, export) ==
    LET options == buildOptions(opts)
        made == makeGrpcExporter(options, dial, export)
    IN  IF IsNoop(options)
        THEN /\ tracer' = [kind |-> "noop", by |-> p]
             /\ writes' = writes + 1
             /\ inits' = [inits EXCEPT ![p] =
                    [pc |-> "idle", result |-> "ok", noop |-> TRUE, dialed |-> FALSE,
                     closure |-> "noop"]]
        ELSE IF made.err # "nil"
        THEN /\ inits' = [inits EXCEPT ![p] =
                    [pc |-> "idle", result |-> "error", noop |-> FALSE, dialed |-> TRUE,
                     closure |-> inits[p].closure]]
             /\ UNCHANGED <<tracer, writes>>
        ELSE /\ tracer' = [kind |-> "real", by |-> p]
             /\ writes' = writes + 1
             /\ inits' = [inits EXCEPT ![p] =
                    [pc |-> "idle", result |-> "ok", noop |-> FALSE, dialed |-> TRUE,
                     closure |-> "real"]]

Outcomes == {"ok", "fail"}

\* Init without the check of lines 25-27.
InitCallNoCheck(p) ==
    /\ inits[p].pc = "idle"
    /\ \E opts \in SeqsUpTo(OptionValues, MaxOpts), dial \in Outcomes, export \in Outcomes :
            InitBody(p, opts, dial, export)
    /\ UNCHANGED <<shut, span, lastOp, panicked>>

\* Init, run to completion by goroutine p.
InitCall(p) ==
    /\ inits[p].pc = "idle"
    /\ IF tracer # NilTracer
       THEN InitAlready(p)
       ELSE \E opts \in SeqsUpTo(OptionValues, MaxOpts), dial \in Outcomes, export \in Outcomes :
                InitBody(p, opts, dial, export)
    /\ UNCHANGED <<shut, span, lastOp, panicked>>

\* Init in a goroutine that runs beside others: the read of `tracer` at
\* line 25 ...
InitEnter(p) ==
    /\ inits[p].pc = "idle"
    /\ IF tracer # NilTracer
       THEN InitAlready(p)
       ELSE /\ inits' = [inits EXCEPT ![p] = [@ EXCEPT !.pc = "checked"]]
            /\ UNCHANGED <<tracer, writes>>
    /\ UNCHANGED <<shut, span, lastOp, panicked>>

\* ... and the rest of the body, with its write of `tracer` at line 32 or 54.
InitFinish(p) ==
    /\ inits[p].pc = "checked"
    /\ \E opts \in SeqsUpTo(OptionValues, MaxOpts), dial \in Outcomes, export \in Outcomes :
            InitBody(p, opts, dial, export)
    /\ UNCHANGED <<shut, span, lastOp, panicked>>

\* The shutdown closure returning as soon as tp.Shutdown fails.
ShutdownRealFailFast(tp, close) ==
    IF tp = "fail"
    THEN [steps |-> <<"tp.Shutdown">>,
          errs |-> <<"failed to shutdown tracer provider">>, isnil |-> FALSE]
    ELSE LET errs == IF close = "fail" THEN <<"failed to close tracer connection">> ELSE <<>>
         IN  [steps |-> <<"tp.Shutdown", "conn.Close">>,
              errs |-> Join(errs).errs, isnil |-> Join(errs).isnil]

\* The closure Init returns in exporting mode (lines 56-67) with the closer
\* of makeGrpcExporter (lines 95-100): both steps, their errors joined.
ShutdownReal(tp, close) ==
    LET errs1 == IF tp = "fail" THEN <<"failed to shutdown tracer provider">> ELSE <<>>
        errs2 == IF close = "fail"
                 THEN Append(errs1, "failed to close tracer connection") ELSE errs1
    IN  [steps |-> <<"tp.Shutdown", "conn.Close">>,
         errs |-> Join(errs2).errs, isnil |-> Join(errs2).isnil]

\* The closure Init returns in no-op mode (lines 33-35).
ShutdownNoop == [steps |-> <<>>, errs |-> <<>>, isnil |-> TRUE]

\* A call of the closure goroutine p got from Init; `tp` and `close` are the
\* outcomes of tp.Shutdown and conn.Close.
Shutdown(p) ==
    /\ inits[p].closure # "none"
    /\ \E tp \in Outcomes, close \in Outcomes :
          LET r == IF inits[p].closure = "noop" THEN ShutdownNoop
                   ELSE ShutdownReal(tp, close)
          IN  shut' = [shut EXCEPT ![p] =
                          [called |-> TRUE,
                           env |-> IF inits[p].closure = "noop" THEN <<>> ELSE <<tp, close>>,
                           steps |-> r.steps, errs |-> r.errs, isnil |-> r.isnil]]
    /\ UNCHANGED <<tracer, writes, inits, span, lastOp, panicked>>

\* ---------------------------------------------------------------- StartSpan
\* tracer.Start on a tracer value; calling it on the nil interface panics.
TracerStart(t) ==
    CASE t.kind = "real" -> [span |-> NewSdkSpan, panic |-> FALSE]
      [] t.kind = "noop" -> [span |-> NewNoopSpan, panic |-> FALSE]
      [] OTHER           -> [span |-> NewNoopSpan, panic |-> TRUE]

\* StartSpan without the nil check of line 144.
StartSpanNoNilCheck(t) == TracerStart(t)

\* StartSpan: a no-op tracer stands in for a nil handle.
StartSpanOn(t) ==
    IF t = NilTracer THEN TracerStart([kind |-> "noop", by |-> 0]) ELSE TracerStart(t)

\* No span started yet.
NoSpan == NewNoopSpan

NoOp == [op |-> "none", arg |-> <<>>, calls |-> <<>>]

\* StartSpan; the caller keeps the new span in place of the one it held.
StartSpan ==
    /\ span' = [StartSpanOn(tracer).span EXCEPT !.via = tracer.kind]
    /\ panicked' = (panicked \/ StartSpanOn(tracer).panic)
    /\ lastOp' = [op |-> "StartSpan", arg |-> <<tracer.kind>>, calls |-> <<>>]
    /\ UNCHANGED <<tracer, writes, inits, shut>>

\* ---------------------------------------------------- calls on the held span
\* Updates are not allowed after End (Span.End, lines 48-51): the caller
\* works on a span it has started and not ended.
Live == span.via # "none" /\ span.ends = 0

Apply(op, arg, out) ==
    /\ Live
    /\ span' = out.u
    /\ lastOp' = [op |-> op, arg |-> arg, calls |-> out.calls]
    /\ UNCHANGED <<tracer, writes, inits, shut, panicked>>

Descriptions == {"manual"}

EventNames == {"custom"}

CallTag ==
    \E key \in Keys, value \in TagValues :
        Apply("Tag", <<key, value>>, Tag(span, key, value))

CallSetStatus ==
    \E code \in Codes, description \in Descriptions :
        Apply("SetStatus", <<code, description>>, SetStatus(span, code, description))

CallAddEvent ==
    /\ Len(span.events) < MaxEvents
    /\ \E name \in EventNames : Apply("AddEvent", <<name>>, AddEvent(span, name))

CallRecordError ==
    /\ Len(span.events) < MaxEvents
    /\ \E err \in {NilErr, ErrDeadline} : Apply("RecordError", <<err>>, RecordError(span, err))

CallEnd ==
    \E errs \in SeqsUpTo(ErrPtrs, MaxErrs) : Apply("End", errs, End(span, errs))

\* ----------------------------------------------------------- specifications
Init ==
    /\ tracer = NilTracer
    /\ writes = 0
    /\ inits = [p \in Goroutines |-> IdleInit]
    /\ shut = [p \in Goroutines |-> NoShutdown]
    /\ span = NoSpan
    /\ lastOp = NoOp
    /\ panicked = FALSE

\* One goroutine: every call runs to completion before the next.
Next ==
    \/ InitCall(Main)
    \/ Shutdown(Main)
    \/ StartSpan
    \/ CallTag
    \/ CallSetStatus
    \/ CallAddEvent
    \/ CallRecordError
    \/ CallEnd

Spec == Init /\ [][Next]_vars

\* Init called from several goroutines, with StartSpan and the returned
\* closures beside them.
RaceNext ==
    \/ \E p \in Goroutines : InitEnter(p)
    \/ \E p \in Goroutines : InitFinish(p)
    \/ \E p \in Goroutines : Shutdown(p)
    \/ StartSpan

RaceSpec == Init /\ [][RaceNext]_vars

\* ------------------------------------------------- vocabulary of the claims
\* A pointer that is non-nil and references a non-nil error.
NonNil(ptr) == ~ptr.isnil /\ ptr.val # NilErr

\* Position of the first such pointer in argument order, 0 when there is none.
FirstIdx(errs) ==
    IF \E i \in DOMAIN errs : NonNil(errs[i])
    THEN CHOOSE i \in DOMAIN errs : NonNil(errs[i]) /\ \A j \in 1..(i - 1) : ~NonNil(errs[j])
    ELSE 0

\* A cancellation: wraps context.Canceled or carries the gRPC Canceled code.
IsCancellation(e) == e.wraps = "Canceled" \/ e.grpc = "Canceled"

SameStatus(u, v) == u.code = v.code /\ u.desc = v.desc

\* A step that is a call of the Span method `op` on the held span.
SpanStep(op) == lastOp'.op = op /\ <<lastOp, span>>' # <<lastOp, span>>

\* A step that is a call of End whose first non-nil error is a cancellation
\* (cancel = TRUE) or another error (cancel = FALSE).
EndStepWith(cancel) ==
    /\ SpanStep("End")
    /\ FirstIdx(lastOp'.arg) # 0
    /\ IsCancellation(lastOp'.arg[FirstIdx(lastOp'.arg)].val) = cancel

\* The state right after a call of End on a recording span, the first
\* non-nil error of the call being e.
AfterEnd(e) ==
    /\ lastOp.op = "End"
    /\ FirstIdx(lastOp.arg) # 0
    /\ lastOp.arg[FirstIdx(lastOp.arg)].val = e
    /\ span.rec

\* ----------------------------------------------------------------------- C1
\* C1 as stated: after End on a recording span whose error is not a
\* cancellation, the status is Error with the error's text as description,
\* and End made no "canceled" event, whatever happened to the span before.
C1_ErrorStatusAlways ==
    \A e \in Errors :
        (~IsCancellation(e) /\ AfterEnd(e)) =>
            /\ span.code = "Error"
            /\ span.desc = e.text
            /\ \A c \in DOMAIN lastOp.calls : lastOp.calls[c][1] # "AddEvent"

\* C1 amended: End with a non-cancellation error makes exactly one
\* SetStatus(Error, text) call and no AddEvent call on the wrapped span and
\* leaves the event log alone; a recording span whose status is not Ok ends
\* with status Error and the error's text, a span whose status is Ok keeps
\* Ok, and a no-op span keeps its (unset) status.
C1_ErrorStatusUnlessOk ==
    [][EndStepWith(FALSE) =>
          LET e == lastOp'.arg[FirstIdx(lastOp'.arg)].val
          IN  /\ lastOp'.calls = <<<<"SetStatus", "Error", e.text>>, <<"End">>>>
              /\ span'.events = span.events
              /\ (span.rec /\ span.code # "Ok") => (span'.code = "Error" /\ span'.desc = e.text)
              /\ (~span.rec \/ span.code = "Ok") => SameStatus(span', span)
      ]_vars

\* A recording span was ended with the one failure and carries its text.
C1_Witness ==
    /\ AfterEnd(ErrDeadline)
    /\ Len(lastOp.arg) = 1
    /\ span.code = "Error"
    /\ span.desc = "context deadline exceeded"

\* ----------------------------------------------------------------------- C2
\* C2: End whose error is a cancellation (wraps context.Canceled, or has the
\* gRPC Canceled code) makes exactly one AddEvent("canceled") call and no
\* SetStatus call; the status after End equals the status before, and the
\* event log of a recording span grows by exactly the one "canceled" event.
C2_CanceledEventOnly ==
    [][EndStepWith(TRUE) =>
          /\ lastOp'.calls = <<<<"AddEvent", "canceled">>, <<"End">>>>
          /\ SameStatus(span', span)
          /\ span'.events = IF span.rec THEN Append(span.events, "canceled") ELSE span.events
      ]_vars

\* A recording span with status Ok was ended with the gRPC cancellation: one
\* "canceled" event, status still Ok.
C2_Witness ==
    /\ AfterEnd(ErrGrpcCanceled)
    /\ Len(lastOp.arg) = 1
    /\ span.events = <<"canceled">>
    /\ span.code = "Ok"

\* ----------------------------------------------------------------------- C3
\* C3: every call of End makes exactly one End call on the wrapped span, as
\* its last call, whatever the errors; and with no pointer, or only nil
\* pointers and pointers to nil errors, it makes no other call and leaves
\* status and event log unchanged.
C3_EndsOnce ==
    [][SpanStep("End") =>
          /\ span'.ends = span.ends + 1
          /\ Cardinality({c \in DOMAIN lastOp'.calls : lastOp'.calls[c][1] = "End"}) = 1
          /\ lastOp'.calls[Len(lastOp'.calls)] = <<"End">>
          /\ (FirstIdx(lastOp'.arg) = 0) =>
                 /\ lastOp'.calls = <<<<"End">>>>
                 /\ SameStatus(span', span)
                 /\ span'.events = span.events
      ]_vars

\* A span whose status was set to Error by hand was ended with a nil pointer
\* and a pointer to a nil error: ended once, status kept.
C3_Witness ==
    /\ lastOp.op = "End"
    /\ lastOp.arg = <<NilPtr, Ref(NilErr)>>
    /\ span.rec
    /\ span.ends = 1
    /\ span.code = "Error"
    /\ span.desc = "manual"

\* ----------------------------------------------------------------------- C4
\* What classifying the single error e does to a span.
Classified(u, e) ==
    IF ~u.rec THEN u
    ELSE IF IsCancellation(e) THEN [u EXCEPT !.events = Append(@, "canceled")]
    ELSE IF u.code = "Ok" THEN u
    ELSE [u EXCEPT !.code = "Error", !.desc = e.text]

\* C4: End classifies exactly one error, the one behind the first pointer
\* that is non-nil and references a non-nil error; pointers before it are
\* skipped and pointers after it have no effect at all.
C4_FirstErrorOnly ==
    [][SpanStep("End") =>
          LET errs == lastOp'.arg
              k == FirstIdx(errs)
          IN  /\ Len(lastOp'.calls) = IF k = 0 THEN 1 ELSE 2
              /\ k # 0 =>
                    /\ lastOp'.calls[1][1] =
                           IF IsCancellation(errs[k].val) THEN "AddEvent" ELSE "SetStatus"
                    /\ [span' EXCEPT !.ends = span.ends] = Classified(span, errs[k].val)
              /\ k = 0 => [span' EXCEPT !.ends = span.ends] = span
      ]_vars

\* A recording span was ended with a cancellation and a failure behind it:
\* only the "canceled" event shows and the status is still unset.
C4_Witness ==
    /\ lastOp.op = "End"
    /\ lastOp.arg = <<Ref(ErrWrappedCanceled), Ref(ErrDeadline)>>
    /\ span.rec
    /\ span.code = "Unset"
    /\ span.events = <<"canceled">>

\* ----------------------------------------------------------------------- C5
\* C5: status precedence Ok > Error > Unset over every step taken on a
\* span (SetStatus, End and the other methods): a status that is Ok stays
\* Ok, and a status that is Error never becomes Unset.
C5_StatusPrecedence ==
    [][lastOp'.op # "StartSpan" =>
          /\ span.code = "Ok" => span'.code = "Ok"
          /\ span.code = "Error" => span'.code # "Unset"
      ]_vars

\* End with a failure has just run on a recording span whose status is Ok.
C5_Witness ==
    /\ AfterEnd(ErrDeadline)
    /\ span.code = "Ok"

\* ----------------------------------------------------------------------- C6
\* C6: once an Init call has succeeded (its shutdown closure run or not),
\* no later Init call assigns the handle and each returns the
\* already-initialized error; and an Init call that returns an error, of
\* either kind, does not assign the handle.
C6_InitOnce ==
    [][/\ (\E q \in Goroutines : inits[q].closure # "none") =>
              /\ tracer' = tracer
              /\ writes' = writes
              /\ \A p \in Goroutines : inits'[p] # inits[p] => inits'[p].result = "already"
       /\ \A p \in Goroutines :
              (inits'[p] # inits[p] /\ inits'[p].result # "ok") =>
                  (tracer' = tracer /\ writes' = writes)
      ]_vars

\* An exporting Init succeeded, its shutdown closure ran, and another Init
\* call was refused: the handle is still the first call's.
C6_Witness ==
    /\ inits[Main].closure = "real"
    /\ shut[Main].called
    /\ inits[Main].result = "already"
    /\ tracer = [kind |-> "real", by |-> Main]
    /\ writes = 1

\* ----------------------------------------------------------------------- C7
\* The errors the closure must report for the outcomes of its two steps.
ShutdownErrors(env) ==
    (IF env[1] = "fail" THEN <<"failed to shutdown tracer provider">> ELSE <<>>)
    \o (IF env[2] = "fail" THEN <<"failed to close tracer connection">> ELSE <<>>)

\* C7: the closure of an exporting Init always runs tp.Shutdown and then
\* conn.Close, the close also after a failed tp.Shutdown; it returns the
\* errors of the failed steps, joined, and nil exactly when both succeeded.
C7_ShutdownBothSteps ==
    \A p \in Goroutines :
        (shut[p].called /\ inits[p].closure = "real") =>
            /\ shut[p].steps = <<"tp.Shutdown", "conn.Close">>
            /\ shut[p].errs = ShutdownErrors(shut[p].env)
            /\ shut[p].isnil <=> shut[p].env = <<"ok", "ok">>

\* The closure ran with tp.Shutdown failing and conn.Close succeeding.
C7_Witness ==
    /\ shut[Main].called
    /\ shut[Main].env = <<"fail", "ok">>
    /\ shut[Main].steps = <<"tp.Shutdown", "conn.Close">>
    /\ ~shut[Main].isnil

\* ----------------------------------------------------------------------- C8
\* C8: no call fails on a missing tracer; an Init with the Noop option dials
\* nothing and its closure runs no step and returns nil; a span started
\* before any Init or after a no-op Init is invalid and not sampled, and
\* whatever is called on it is accepted and records nothing.
C8_InertWhenDisabled ==
    /\ ~panicked
    /\ \A p \in Goroutines :
          /\ (inits[p].result = "ok" /\ inits[p].noop) => ~inits[p].dialed
          /\ (inits[p].closure = "noop" /\ shut[p].called) =>
                 (shut[p].isnil /\ shut[p].steps = <<>>)
    /\ span.via \in {"nil", "noop"} =>
          /\ ~span.valid
          /\ ~span.sampled
          /\ span.code = "Unset"
          /\ span.events = <<>>
          /\ \A k \in Keys : span.attrs[k] = NoAttr

\* After a no-op Init whose closure has run, a span started through the
\* no-op tracer was ended with a failure.
C8_Witness ==
    /\ inits[Main].result = "ok"
    /\ inits[Main].noop
    /\ shut[Main].called
    /\ lastOp.op = "End"
    /\ lastOp.arg = <<Ref(ErrDeadline)>>
    /\ span.via = "noop"
    /\ span.ends = 1

\* ----------------------------------------------------------------------- C9
\* C9: under every interleaving of Init calls and StartSpan calls the handle
\* is assigned at most once and at most one Init call succeeds.
C9_WrittenOnce ==
    /\ writes <= 1
    /\ Cardinality({p \in Goroutines : inits[p].closure # "none"}) <= 1

\* ---------------------------------------------------------------------- C10
\* The attribute type the claim gives each kind of value: signed integers of
\* 32 and 64 bits, string, floating point, boolean, string sequence, integer
\* sequence, and any value with a textual representation.
ClaimedAttrType(value) ==
    CASE value.type \in {"int", "int32", "int64"} -> "INT64"
      [] value.type = "string" -> "STRING"
      [] value.type \in {"float64", "float32"} -> "FLOAT64"
      [] value.type = "bool" -> "BOOL"
      [] value.type = "[]string" -> "STRINGSLICE"
      [] value.type \in {"[]int", "[]int64"} -> "INT64SLICE"
      [] value.stringer -> "STRING"
      [] OTHER -> "none"

\* The same for the dynamic types the type switch names: int, int64,
\* string, float64, bool, []string, []int and fmt.Stringer.
SwitchAttrType(value) ==
    CASE value.type \in {"int", "int64"} -> "INT64"
      [] value.type = "string" -> "STRING"
      [] value.type = "float64" -> "FLOAT64"
      [] value.type = "bool" -> "BOOL"
      [] value.type = "[]string" -> "STRINGSLICE"
      [] value.type = "[]int" -> "INT64SLICE"
      [] value.stringer -> "STRING"
      [] OTHER -> "none"

\* Tag's effect on the held span when `type` is the attribute type its
\* value is to get ("none": the value is dropped).
TagEffect(type) ==
    LET key == lastOp'.arg[1]
    IN  IF type = "none"
        THEN lastOp'.calls = <<>> /\ span' = span
        ELSE /\ Len(lastOp'.calls) = 1
             /\ lastOp'.calls[1][1] = "SetAttributes"
             /\ lastOp'.calls[1][2] = key
             /\ lastOp'.calls[1][3].type = type
             /\ span.rec => span' = [span EXCEPT !.attrs[key] = lastOp'.calls[1][3]]
             /\ ~span.rec => span' = span

\* C10 as stated: Tag attaches one attribute of the matching type for every
\* kind the claim lists, 32-bit integers among them, and nothing otherwise.
C10_TagAllKinds ==
    [][SpanStep("Tag") => TagEffect(ClaimedAttrType(lastOp'.arg[2]))]_vars

\* C10 amended: Tag attaches exactly one attribute of the matching type when
\* the value's dynamic type is int, int64, string, float64, bool, []string
\* or []int, or implements fmt.Stringer; for every other value, int32,
\* float32 and []int64 included, it attaches nothing and fails nothing.
C10_TagSwitchKinds ==
    [][SpanStep("Tag") => TagEffect(SwitchAttrType(lastOp'.arg[2]))]_vars

\* A recording span was tagged with an int32 value and carries no attribute.
C10_Witness ==
    /\ lastOp.op = "Tag"
    /\ lastOp.arg[2] = Builtin("int32")
    /\ lastOp.calls = <<>>
    /\ span.rec
    /\ span.attrs[lastOp.arg[1]] = NoAttr

====
